---- MODULE Spec2Model ----
(***************************************************************************)
(* Model of the dependency resolver of src/main.py (class                  *)
(* DependencyResolver and main).                                           *)
(*                                                                         *)
(* Text is modelled as a sequence of tokens.  A token is a piece of text   *)
(* the program never looks inside: a name, a version, one whitespace       *)
(* character " ", the line terminator "\n", and the markers "#", "==",     *)
(* "[" and "]".  The string operations the code uses (strip, startswith,   *)
(* "in", split, readlines, concatenation) are defined on token sequences   *)
(* as Python defines them on characters.                                   *)
(***************************************************************************)
EXTENDS Integers, Sequences, FiniteSets, TLC

VARIABLES
    pc,              \* position of the run in main()/resolve()
    test_only,       \* args.test_only
    file_exists,     \* Path(args.requirements_file).exists()
    file,            \* content of self.requirements_file
    file0,           \* history: content of the requirements file when the run started
    backup_exists,   \* whether the .backup sibling exists
    backup_content,  \* content of the .backup sibling
    sub1,            \* history: outcome of the first dry-run subprocess
    sub2,            \* history: outcome of the final dry-run subprocess
    has_conflicts,   \* value returned by check_for_conflicts()
    success,         \* value returned by test_final_result()
    exit_code,       \* process exit status, -1 while the process runs
    writes,          \* history: number of times the requirements file was opened for writing
    after_fix,       \* history: content of the file when the ApplyFixes step ended
    returns          \* history: the values apply_smart_fixes() returned, in order

vars == <<pc, test_only, file_exists, file, file0, backup_exists, backup_content,
          sub1, sub2, has_conflicts, success, exit_code, writes, after_fix, returns>>

(***************************************************************************)
(* Bounds                                                                  *)
(***************************************************************************)
\* longest requirements file, in lines, of a resolver run (Spec)
MaxRunLines == 2
\* longest requirements file, in lines, the rewrite steps are applied to (SpecFix)
MaxLines == 3
\* number of successive applications of apply_smart_fixes (SpecFix)
MaxApplications == 2

(***************************************************************************)
(* Python string operations on token sequences                             *)
(***************************************************************************)
\* str.isspace() for one character
IsSpace(t) == t \in {" ", "\n"}

RECURSIVE lstrip(_)
lstrip(s) == IF s # <<>> /\ IsSpace(Head(s)) THEN lstrip(Tail(s)) ELSE s

RECURSIVE rstrip(_)
rstrip(s) == IF s # <<>> /\ IsSpace(s[Len(s)]) THEN rstrip(SubSeq(s, 1, Len(s) - 1)) ELSE s

\* str.strip()
strip(s) == rstrip(lstrip(s))

\* t in s
contains(s, t) == \E i \in 1..Len(s) : s[i] = t

\* position of the first t in s, 0 when there is none
find(s, t) ==
    IF contains(s, t)
    THEN CHOOSE i \in 1..Len(s) : s[i] = t /\ \A j \in 1..(i - 1) : s[j] # t
    ELSE 0

\* s.split(sep, 1)
split1(s, sep) ==
    IF contains(s, sep)
    THEN <<SubSeq(s, 1, find(s, sep) - 1), SubSeq(s, find(s, sep) + 1, Len(s))>>
    ELSE <<s>>

\* s.split(sep)[0]
split_first(s, sep) == split1(s, sep)[1]

\* s.startswith(t)
startswith(s, t) == s # <<>> /\ Head(s) = t

\* s.endswith(t)
endswith(s, t) == s # <<>> /\ s[Len(s)] = t

\* f.readlines(): the lines of a text, each with its terminator
RECURSIVE readlines(_)
readlines(c) ==
    IF c = <<>> THEN <<>>
    ELSE IF contains(c, "\n")
         THEN <<SubSeq(c, 1, find(c, "\n"))>> \o readlines(SubSeq(c, find(c, "\n") + 1, Len(c)))
         ELSE <<c>>

(***************************************************************************)
(* DependencyResolver.__init__                                             *)
(***************************************************************************)
\* self.known_combinations, in insertion order
known_combinations ==
    << [name |-> "langchain_ecosystem",
        versions |-> << << <<"google-generativeai">>, <<"0.7.2">> >>,
                        << <<"langchain">>, <<"0.2.16">> >>,
                        << <<"langchain-community">>, <<"0.2.16">> >>,
                        << <<"langchain-google-genai">>, <<"1.0.10">> >> >>],
       [name |-> "django_ecosystem",
        versions |-> << << <<"django">>, <<"5.1.4">> >>,
                        << <<"djangorestframework">>, <<"3.15.2">> >>,
                        << <<"django-cors-headers">>, <<"4.4.0">> >>,
                        << <<"django-redis">>, <<"5.4.0">> >> >>],
       [name |-> "fastapi_ecosystem",
        versions |-> << << <<"fastapi">>, <<"0.115.4">> >>,
                        << <<"uvicorn", "[", "standard", "]">>, <<"0.32.0">> >>,
                        << <<"pydantic">>, <<"2.10.3">> >> >>] >>

\* versions.keys()
keys(versions) == {versions[j][1] : j \in 1..Len(versions)}

\* versions[k], for k in versions
lookup(versions, k) == versions[CHOOSE j \in 1..Len(versions) : versions[j][1] = k][2]

(***************************************************************************)
(* DependencyResolver.parse_requirements                                   *)
(***************************************************************************)
\* the tuple (None, None, original_line)
no_package(original_line) ==
    [none |-> TRUE, pkg |-> <<>>, ver |-> <<>>, original_line |-> original_line]

\* the body of the loop over the lines
parse_line(line) ==
    IF strip(line) = <<>> \/ startswith(strip(line), "#")
    THEN no_package(strip(line))
    ELSE IF contains(line, "==")
         THEN [none |-> FALSE,
               pkg |-> strip(split_first(split1(strip(line), "==")[1], "[")),
               ver |-> strip(split1(strip(line), "==")[2]),
               original_line |-> strip(line)]
         ELSE no_package(strip(line))

parse_requirements(content) ==
    LET lines == readlines(content)
    IN  [i \in 1..Len(lines) |-> parse_line(lines[i])]

(***************************************************************************)
(* DependencyResolver.apply_smart_fixes                                    *)
(***************************************************************************)
\* package_dict = {pkg: (ver, line) for pkg, ver, line in packages if pkg}
package_dict(packages) ==
    LET named == {i \in 1..Len(packages) : ~packages[i].none /\ packages[i].pkg # <<>>}
        last(k) == CHOOSE i \in named :
                      packages[i].pkg = k /\ \A j \in named : packages[j].pkg = k => j <= i
    IN  [k \in {packages[i].pkg : i \in named} |->
            [ver |-> packages[last(k)].ver, line |-> packages[last(k)].original_line]]

\* the loop over the ecosystems: whether any fix is recorded
fixes_needed(packages) ==
    LET pd == package_dict(packages)
    IN  \E e \in 1..Len(known_combinations) :
            LET versions == known_combinations[e].versions
                ecosystem_packages == keys(versions) \cap DOMAIN pd
            IN  /\ Cardinality(ecosystem_packages) > 1
                /\ \E j \in 1..Len(versions) :
                      /\ versions[j][1] \in DOMAIN pd
                      /\ pd[versions[j][1]].ver # versions[j][2]

\* the inner loop of the rebuild: the version of the first ecosystem that has
\* pkg, the empty string (falsy, as None is) when none has
fixed_version(pkg) ==
    IF \E e \in 1..Len(known_combinations) : pkg \in keys(known_combinations[e].versions)
    THEN lookup(known_combinations[
                    CHOOSE e \in 1..Len(known_combinations) :
                        /\ pkg \in keys(known_combinations[e].versions)
                        /\ \A d \in 1..(e - 1) : pkg \notin keys(known_combinations[d].versions)
                ].versions, pkg)
    ELSE <<>>

\* whether the rebuild takes the "Apply fix" branch for a parsed line
is_fixed(p) == ~p.none /\ fixed_version(p.pkg) # <<>> /\ fixed_version(p.pkg) # p.ver

\* faulty variant: the extras branch keeps the old version
updated_line_extras_keep_version(p) ==
    IF p.none THEN p.original_line
    ELSE IF is_fixed(p)
         THEN IF contains(p.original_line, "[")
              THEN split1(p.original_line, "==")[1] \o <<"==">> \o p.ver
              ELSE p.pkg \o <<"==">> \o fixed_version(p.pkg)
         ELSE p.original_line

\* the body of the rebuild loop: the line appended to updated_lines
updated_line(p) ==
    IF p.none THEN p.original_line
    ELSE IF is_fixed(p)
         THEN IF contains(p.original_line, "[")
              THEN split1(p.original_line, "==")[1] \o <<"==">> \o fixed_version(p.pkg)
              ELSE p.pkg \o <<"==">> \o fixed_version(p.pkg)
         ELSE p.original_line

updated_lines(packages) == [i \in 1..Len(packages) |-> updated_line(packages[i])]

\* for line in lines: f.write(line + "\n" if not line.endswith("\n") else line)
RECURSIVE write_lines(_)
write_lines(lines) ==
    IF lines = <<>> THEN <<>>
    ELSE (IF ~endswith(Head(lines), "\n") THEN Head(lines) \o <<"\n">> ELSE Head(lines))
         \o write_lines(Tail(lines))

\* faulty variant: the file is rewritten whether or not a fix is needed
apply_smart_fixes_always_writes(content) ==
    LET packages == parse_requirements(content)
    IN  [fixes_needed |-> fixes_needed(packages),
         content |-> write_lines(updated_lines(packages))]

\* apply_smart_fixes on a file with this content, without an I/O error: the value
\* returned and the content the file is left with
apply_smart_fixes(content) ==
    LET packages == parse_requirements(content)
        needed == fixes_needed(packages)
    IN  [fixes_needed |-> needed,
         content |-> IF needed THEN write_lines(updated_lines(packages)) ELSE content]

(***************************************************************************)
(* DependencyResolver.remove_problematic_packages                          *)
(***************************************************************************)
removable_packages == {}

\* remove_problematic_packages on a file with this content, without an I/O error
remove_problematic_packages(content) ==
    LET packages == parse_requirements(content)
        keep(p) == ~(~p.none /\ p.pkg \in removable_packages)
        removed_packages == {i \in 1..Len(packages) : ~keep(packages[i])}
        kept == SelectSeq(packages, keep)
    IN  [removed |-> removed_packages # {},
         content |-> IF removed_packages # {}
                     THEN write_lines([i \in 1..Len(kept) |-> kept[i].original_line])
                     ELSE content]

(***************************************************************************)
(* The dry-run subprocess                                                  *)
(***************************************************************************)
\* what subprocess.run(..., timeout=120) can do: return with exit code 0, return
\* with another exit code, raise TimeoutExpired, raise another exception
Outcomes == {"returncode_0", "returncode_nonzero", "TimeoutExpired", "Exception"}

\* faulty variant: a timeout is taken for "no conflicts"
check_for_conflicts_timeout_passes(outcome) ==
    CASE outcome = "returncode_0" -> FALSE
      [] outcome = "returncode_nonzero" -> TRUE
      [] outcome = "TimeoutExpired" -> FALSE
      [] OTHER -> TRUE

\* the value check_for_conflicts returns
check_for_conflicts(outcome) ==
    CASE outcome = "returncode_0" -> FALSE
      [] outcome = "returncode_nonzero" -> TRUE
      [] outcome = "TimeoutExpired" -> TRUE
      [] OTHER -> TRUE

\* the value test_final_result returns
test_final_result(outcome) ==
    CASE outcome = "returncode_0" -> TRUE
      [] outcome = "returncode_nonzero" -> FALSE
      [] OTHER -> FALSE

(***************************************************************************)
(* main and DependencyResolver.resolve                                     *)
(***************************************************************************)
\* faulty variant: the result of resolve() is not turned into a failure status
exit_status_always_zero(ok) == IF ok THEN 0 ELSE 0

\* sys.exit(0 if success else 1)
exit_status(ok) == IF ok THEN 0 ELSE 1

\* sys.exit(1 if has_conflicts else 0)
test_only_status(conflicts) == IF conflicts THEN 1 ELSE 0

\* the exit status of a process ended by an uncaught exception
uncaught_exception_status == exit_status(FALSE)

\* faulty variant: resolve goes on to the backup and the fixes without conflicts too
resolve_after_check_never_returns(conflicts) == IF ~conflicts THEN "Backup" ELSE "Backup"

\* resolve, Step 1: return True when there are no conflicts, go on to the backup otherwise
resolve_after_check(conflicts) == IF ~conflicts THEN "Done" ELSE "Backup"

\* the texts the requirements file is drawn from, one per kind of line the parser tells apart
CandidateLines ==
    { <<"django", "==", "4.0.0">>,
      <<"djangorestframework", "==", "3.14.0">>,
      <<"django", "==", "5.1.4">>,
      <<"djangorestframework", "==", "3.15.2">>,
      <<"fastapi", "==", "0.100.0">>,
      <<"uvicorn", "[", "standard", "]", "==", "0.20.0">>,
      <<"django", "[", "argon2", "]", "==", "4.0.0">>,
      <<"requests", "==", "2.31.0", " ">>,
      <<" ", "#", "note">>,
      <<"flask", ">=", "2.0">>,
      <<>> }

RECURSIVE join(_, _)
join(ls, final_newline) ==
    IF ls = <<>> THEN <<>>
    ELSE IF Len(ls) = 1 /\ ~final_newline THEN Head(ls)
         ELSE Head(ls) \o <<"\n">> \o join(Tail(ls), final_newline)

\* the requirements files of at most n lines, with and without a final newline
Files(n) ==
    {join(ls, nl) : ls \in UNION {[1..k -> CandidateLines] : k \in 0..n}, nl \in BOOLEAN}

Init ==
    /\ pc = "Start"
    /\ test_only \in BOOLEAN
    /\ file_exists \in BOOLEAN
    /\ file \in (IF file_exists THEN Files(MaxRunLines) ELSE {<<>>})
    /\ file0 = file
    /\ backup_exists = FALSE
    /\ backup_content = <<>>
    /\ sub1 = "none"
    /\ sub2 = "none"
    /\ has_conflicts = FALSE
    /\ success = FALSE
    /\ exit_code = -1
    /\ writes = 0
    /\ after_fix = <<>>
    /\ returns = <<>>

\* main: the "file not found" precondition
Start ==
    /\ pc = "Start"
    /\ IF ~file_exists
       THEN pc' = "Done" /\ exit_code' = 1
       ELSE pc' = "CheckConflicts" /\ exit_code' = exit_code
    /\ UNCHANGED <<test_only, file_exists, file, file0, backup_exists, backup_content,
                   sub1, sub2, has_conflicts, success, writes, after_fix, returns>>

\* check_for_conflicts, called by main (--test-only) or by resolve (Step 1)
CheckConflicts ==
    /\ pc = "CheckConflicts"
    /\ \E o \in Outcomes :
          /\ sub1' = o
          /\ has_conflicts' = check_for_conflicts(o)
          /\ IF test_only
             THEN pc' = "Done" /\ exit_code' = test_only_status(check_for_conflicts(o))
             ELSE /\ pc' = resolve_after_check(check_for_conflicts(o))
                  /\ exit_code' = IF resolve_after_check(check_for_conflicts(o)) = "Done"
                                  THEN exit_status(TRUE) ELSE exit_code
    /\ UNCHANGED <<test_only, file_exists, file, file0, backup_exists, backup_content,
                   sub2, success, writes, after_fix, returns>>

\* faulty variant: the backup step goes on without copying the file
Backup_not_copied ==
    /\ pc = "Backup"
    /\ pc' = "RemoveProblematic"
    /\ UNCHANGED <<test_only, file_exists, file, file0, backup_exists, backup_content,
                   sub1, sub2, has_conflicts, success, exit_code, writes, after_fix, returns>>

\* create_backup (resolve, Step 2); shutil.copy2 raising ends the process, with
\* no copy, a partial copy or a whole copy left behind
Backup ==
    /\ pc = "Backup"
    /\ \/ /\ backup_exists' = TRUE
          /\ backup_content' = file
          /\ pc' = "RemoveProblematic"
          /\ exit_code' = exit_code
       \/ /\ \E b \in BOOLEAN, n \in 0..Len(file) :
                /\ backup_exists' = b
                /\ backup_content' = IF b THEN SubSeq(file, 1, n) ELSE <<>>
          /\ pc' = "Done"
          /\ exit_code' = uncaught_exception_status
    /\ UNCHANGED <<test_only, file_exists, file, file0, sub1, sub2, has_conflicts,
                   success, writes, after_fix, returns>>

\* remove_problematic_packages (resolve, Step 3); an exception while reading
\* ends the process
RemoveProblematic ==
    /\ pc = "RemoveProblematic"
    /\ \/ /\ LET r == remove_problematic_packages(file)
             IN  /\ file' = r.content
                 /\ writes' = writes + (IF r.removed THEN 1 ELSE 0)
          /\ pc' = "ApplyFixes"
          /\ exit_code' = exit_code
       \/ /\ UNCHANGED <<file, writes>>
          /\ pc' = "Done"
          /\ exit_code' = uncaught_exception_status
    /\ UNCHANGED <<test_only, file_exists, file0, backup_exists, backup_content,
                   sub1, sub2, has_conflicts, success, after_fix, returns>>

\* apply_smart_fixes (resolve, Step 4); an exception before the file is opened
\* for writing leaves it as it was, one while writing leaves the lines written so far
ApplyFixes ==
    /\ pc = "ApplyFixes"
    /\ \/ /\ LET r == apply_smart_fixes(file)
             IN  /\ file' = r.content
                 /\ returns' = Append(returns, r.fixes_needed)
                 /\ writes' = writes + (IF r.fixes_needed THEN 1 ELSE 0)
                 /\ after_fix' = r.content
          /\ pc' = "Verify"
          /\ exit_code' = exit_code
       \/ /\ UNCHANGED <<file, returns, writes, after_fix>>
          /\ pc' = "Done"
          /\ exit_code' = uncaught_exception_status
       \/ /\ apply_smart_fixes(file).fixes_needed
          /\ \E k \in 0..(Len(parse_requirements(file)) - 1) :
                file' = write_lines(SubSeq(updated_lines(parse_requirements(file)), 1, k))
          /\ writes' = writes + 1
          /\ UNCHANGED <<returns, after_fix>>
          /\ pc' = "Done"
          /\ exit_code' = uncaught_exception_status
    /\ UNCHANGED <<test_only, file_exists, file0, backup_exists, backup_content,
                   sub1, sub2, has_conflicts, success>>

\* faulty variant: a failed final dry-run restores the file from the backup
Verify_rolls_back ==
    /\ pc = "Verify"
    /\ \E o \in Outcomes :
          /\ sub2' = o
          /\ success' = test_final_result(o)
          /\ exit_code' = exit_status(test_final_result(o))
          /\ file' = IF test_final_result(o) THEN file ELSE backup_content
    /\ pc' = "Done"
    /\ UNCHANGED <<test_only, file_exists, file0, backup_exists, backup_content,
                   sub1, has_conflicts, writes, after_fix, returns>>

\* test_final_result (resolve, Step 5) and the exit of main
Verify ==
    /\ pc = "Verify"
    /\ \E o \in Outcomes :
          /\ sub2' = o
          /\ success' = test_final_result(o)
          /\ exit_code' = exit_status(test_final_result(o))
    /\ pc' = "Done"
    /\ UNCHANGED <<test_only, file_exists, file, file0, backup_exists, backup_content,
                   sub1, has_conflicts, writes, after_fix, returns>>

Next == Start \/ CheckConflicts \/ Backup \/ RemoveProblematic \/ ApplyFixes \/ Verify

Spec == Init /\ [][Next]_vars

(***************************************************************************)
(* The rewrite steps as functions of the file: remove_problematic_packages *)
(* once, then apply_smart_fixes MaxApplications times, on every file of at *)
(* most MaxLines lines.                                                    *)
(***************************************************************************)
InitFix ==
    /\ pc = "FixRemove"
    /\ test_only = FALSE
    /\ file_exists = TRUE
    /\ file \in Files(MaxLines)
    /\ file0 = file
    /\ backup_exists = FALSE
    /\ backup_content = <<>>
    /\ sub1 = "none"
    /\ sub2 = "none"
    /\ has_conflicts = FALSE
    /\ success = FALSE
    /\ exit_code = -1
    /\ writes = 0
    /\ after_fix = <<>>
    /\ returns = <<>>

FixRemove ==
    /\ pc = "FixRemove"
    /\ LET r == remove_problematic_packages(file)
       IN  /\ file' = r.content
           /\ writes' = writes + (IF r.removed THEN 1 ELSE 0)
    /\ pc' = "FixApply"
    /\ UNCHANGED <<test_only, file_exists, file0, backup_exists, backup_content, sub1,
                   sub2, has_conflicts, success, exit_code, after_fix, returns>>

FixApply ==
    /\ pc = "FixApply"
    /\ Len(returns) < MaxApplications
    /\ LET r == apply_smart_fixes(file)
       IN  /\ file' = r.content
           /\ returns' = Append(returns, r.fixes_needed)
           /\ writes' = writes + (IF r.fixes_needed THEN 1 ELSE 0)
           /\ after_fix' = IF returns = <<>> THEN r.content ELSE after_fix
    /\ UNCHANGED <<pc, test_only, file_exists, file0, backup_exists, backup_content,
                   sub1, sub2, has_conflicts, success, exit_code>>

NextFix == FixRemove \/ FixApply

SpecFix == InitFix /\ [][NextFix]_vars

(***************************************************************************)
(* Vocabulary of the claims                                                *)
(***************************************************************************)
\* a line without its terminator
line_text(l) == IF endswith(l, "\n") THEN SubSeq(l, 1, Len(l) - 1) ELSE l

\* the text before "==" of a pin, extras included
full_name(l) == strip(split1(strip(l), "==")[1])

\* the names by which a line pins a package: its name without and with its
\* bracketed extras; none for a line that is no pin
pin_names(l) == IF parse_line(l).none THEN {} ELSE {parse_line(l).pkg, full_name(l)}

\* the pins of a file, line by line: the names and the version
pin_table(content) ==
    LET lines == readlines(content)
    IN  [i \in 1..Len(lines) |-> [names |-> pin_names(lines[i]), ver |-> parse_line(lines[i]).ver]]

Groups == 1..Len(known_combinations)

\* the members of the group e that a file with these pins has present
present_members(pt, e) ==
    keys(known_combinations[e].versions) \cap UNION {pt[i].names : i \in DOMAIN pt}

\* the group has two or more of its members present in the file
group_applies(pt, e) == Cardinality(present_members(pt, e)) >= 2

\* every pin of a member of a group with two or more present members is at the
\* version the table prescribes
members_at_prescribed(pt) ==
    \A e \in Groups : group_applies(pt, e) =>
        \A i \in DOMAIN pt :
            \A k \in pt[i].names \cap keys(known_combinations[e].versions) :
                pt[i].ver = lookup(known_combinations[e].versions, k)

\* no group with two or more present members has a member pinned to another
\* version than the prescribed one
no_applicable_fix(content) == members_at_prescribed(pin_table(content))

\* a text without its trailing newlines
RECURSIVE chomp(_)
chomp(c) == IF endswith(c, "\n") THEN chomp(SubSeq(c, 1, Len(c) - 1)) ELSE c

\* apply_smart_fixes has been applied to the file (SpecFix)
Applied == pc = "FixApply" /\ Len(returns) >= 1

(***************************************************************************)
(* Claims                                                                  *)
(***************************************************************************)

\* C1: the backup is made before any write to the requirements file: whenever
\* the file has been opened for writing, or differs from what it was when the
\* run started, create_backup has completed and the backup holds the content
\* the file had when the run started.  No step but the backup changes the
\* backup, and the file is written only after the Backup step.
C1_BackupBeforeWrite ==
    /\ [](writes > 0 \/ file # file0
            => backup_exists /\ backup_content = file0
               /\ pc \in {"ApplyFixes", "Verify", "Done"})
    /\ [][(file' # file \/ writes' # writes)
            => backup_exists /\ backup_content = file0 /\ UNCHANGED <<backup_exists, backup_content>>]_vars

\* C1 witness: a run that rewrote the file, with the backup in place
C1_Witness ==
    pc = "Verify" /\ writes = 1 /\ file # file0 /\ backup_exists /\ backup_content = file0

\* C2: exit status 0 exactly when the first dry-run reported no conflicts or
\* the final dry-run succeeded, 1 in every other outcome (missing file, I/O
\* error); with --test-only, once check_for_conflicts has run, 1 exactly when
\* it reports conflicts.
C2_ExitStatus ==
    /\ exit_code \in {-1, 0, 1}
    /\ (exit_code = -1) <=> (pc # "Done")
    /\ pc = "Done" =>
        /\ (exit_code = 0) <=> (sub1 = "returncode_0" \/ sub2 = "returncode_0")
        /\ (test_only /\ sub1 # "none") => ((exit_code = 1) <=> has_conflicts)

\* C2 witness: a run that found conflicts and ended by an I/O error, with status 1
C2_Witness ==
    pc = "Done" /\ ~test_only /\ has_conflicts /\ sub2 = "none" /\ exit_code = 1

\* C3 (as stated): after apply_smart_fixes, every present member of every
\* group with two or more present members is pinned to the prescribed version,
\* members written with extras such as uvicorn[standard] included.
C3_AllPresentMembersPinned ==
    Applied =>
        LET before == pin_table(file0)
            after == pin_table(after_fix)
        IN  \A e \in Groups : group_applies(before, e) =>
                /\ present_members(before, e) \subseteq present_members(after, e)
                /\ \A i \in DOMAIN after :
                      \A k \in after[i].names \cap present_members(before, e) :
                          after[i].ver = lookup(known_combinations[e].versions, k)

\* C4 (as stated): a pin whose package is the only present member of its group
\* keeps its version through apply_smart_fixes.
C4_LoneMemberKept ==
    Applied =>
        LET before == pin_table(file0)
            after == pin_table(after_fix)
        IN  \A i \in DOMAIN before :
                (\E e \in Groups :
                    /\ before[i].names \cap keys(known_combinations[e].versions) # {}
                    /\ ~group_applies(before, e))
                => i \in DOMAIN after /\ after[i].ver = before[i].ver

\* C5 (as stated): when apply_smart_fixes rewrites the file, every line that is
\* not a rewritten pin has exactly the characters it had, and the output has
\* as many lines as the input, in the same order.
C5_OtherLinesVerbatim ==
    (Applied /\ returns[1]) =>
        /\ Len(readlines(after_fix)) = Len(readlines(file0))
        /\ \A i \in 1..Len(readlines(file0)) :
              ~is_fixed(parse_line(readlines(file0)[i])) =>
                  line_text(readlines(after_fix)[i]) = line_text(readlines(file0)[i])

\* C6: when no ecosystem fix is applicable, remove_problematic_packages then
\* apply_smart_fixes leave the file as it was, up to its trailing newline.
C6_RoundTrip ==
    (Applied /\ no_applicable_fix(file0)) => chomp(after_fix) = chomp(file0)

\* C6 witness: a file with a group member and a line with surrounding
\* whitespace, no fix applicable, after the rewrite steps
C6_Witness ==
    /\ Applied /\ no_applicable_fix(file0)
    /\ \E e \in Groups : group_applies(pin_table(file0), e)
    /\ \E i \in 1..Len(readlines(file0)) :
          strip(readlines(file0)[i]) # line_text(readlines(file0)[i])

\* C7: check_for_conflicts returns True on a timeout or an exception and False
\* only on exit code 0; test_final_result reports success only on exit code 0.
C7_ConservativeFallback ==
    /\ sub1 \in {"TimeoutExpired", "Exception"} => has_conflicts
    /\ (sub1 # "none" /\ ~has_conflicts) => sub1 = "returncode_0"
    /\ sub1 = "returncode_0" => ~has_conflicts
    /\ success => sub2 = "returncode_0"
    /\ sub2 \in {"TimeoutExpired", "Exception", "returncode_nonzero"} => ~success

\* C7 witness: both dry-runs timed out
C7_Witness ==
    pc = "Done" /\ sub1 = "TimeoutExpired" /\ sub2 = "TimeoutExpired"

\* C8: a run of resolve() goes Start -> CheckConflicts -> Done without
\* conflicts and Start -> CheckConflicts -> Backup -> ApplyFixes (removal,
\* then fixes) -> Verify -> Done with conflicts, each step once and in that
\* order, a step that raises ending the run; without conflicts, and when the
\* file does not exist, no backup is created and the file is never written.
C8_StepOrder ==
    /\ [][\/ pc = "Start" /\ pc' = (IF file_exists THEN "CheckConflicts" ELSE "Done")
          \/ pc = "CheckConflicts" /\ ~test_only
               /\ pc' = (IF has_conflicts' THEN "Backup" ELSE "Done")
          \/ pc = "CheckConflicts" /\ test_only /\ pc' = "Done"
          \/ pc = "Backup" /\ pc' = "RemoveProblematic" /\ backup_exists'
          \/ pc = "RemoveProblematic" /\ pc' = "ApplyFixes"
          \/ pc = "ApplyFixes" /\ pc' = "Verify"
          \/ pc \in {"Backup", "RemoveProblematic", "ApplyFixes"}
               /\ pc' = "Done" /\ exit_code' = 1 /\ sub2' = "none"
          \/ pc = "Verify" /\ pc' = "Done" /\ sub2' # "none"]_vars
    /\ [](~file_exists \/ (sub1 # "none" /\ ~has_conflicts)
            => ~backup_exists /\ writes = 0 /\ file = file0
               /\ pc \in {"Start", "Done"})

\* C8 witness: a run on the conflicts path that reached Done through Verify
C8_Witness ==
    pc = "Done" /\ has_conflicts /\ ~test_only /\ sub2 # "none" /\ backup_exists

\* C9: Verify never rolls back: whatever test_final_result returns, the file
\* keeps the content apply_smart_fixes left and the backup keeps the pre-fix
\* content; only the result and the exit status change.
C9_NoRollback ==
    /\ [](sub2 # "none" => file = after_fix /\ backup_exists /\ backup_content = file0)
    /\ [][pc = "Verify" => UNCHANGED <<file, backup_exists, backup_content, writes>>]_vars

\* C9 witness: a failed Verify after a rewrite
C9_Witness ==
    pc = "Done" /\ sub2 = "returncode_nonzero" /\ ~success /\ file # file0 /\ exit_code = 1

\* C10: apply_smart_fixes is idempotent: every application after the first
\* returns False and leaves the file as the first left it.
C10_Idempotent ==
    /\ \A i \in 2..Len(returns) : ~returns[i]
    /\ (Applied /\ Len(returns) >= 2) => file = after_fix

\* C10 witness: a second application after a first one that rewrote a pin
\* written with extras
C10_Witness ==
    /\ Applied /\ Len(returns) >= 2 /\ returns[1] /\ file # file0
    /\ \E i \in 1..Len(readlines(file0)) :
          is_fixed(parse_line(readlines(file0)[i])) /\ contains(readlines(file0)[i], "[")

====
